---- MODULE Spec2Model ----
(***************************************************************************)
(* A model of tephra's descriptor-pool allocator (descriptor.rs) and of    *)
(* the Vulkan draw path (backend/vulkan/render.rs).                        *)
(*                                                                         *)
(* Part 1: LinearPoolAllocator, Pool, Allocator (the allocation session)   *)
(*         used by several threads through Arc<Mutex<..>>.                 *)
(* Part 2: Render::draw_indexed and create_pipeline.                       *)
(***************************************************************************)
EXTENDS Integers, Sequences, FiniteSets, TLC

(* ------------------------------ bounds -------------------------------- *)
\* threads sharing one Pool<T>
NumThreads == 2
\* Pool::allocate calls made in one run
MaxCalls == 3
\* Allocator::allocate calls made on one session
MaxAllocs == 101
\* the same, in the runs that check progress of the lock
MaxAllocsFair == 2

Threads == 1 .. NumThreads

(* ------------------------- descriptor.rs ------------------------------ *)
\* LinearPoolAllocator::new: block_size: 50
block_size == 50

VARIABLES
  pools,                 \* LinearPoolAllocator.pools: Seq of [alloc_size, sets]
  locked,                \* the parking_lot Mutex around the LinearPoolAllocator
  pc,                    \* per thread: "idle" | "lock" | "held" | "unwind" | "drop"
  sess,                  \* per thread: "none" | "live" | "ended"  (its Allocator value)
  current_allocations,   \* Allocator.current_allocations of the thread's session
  calls,                 \* Pool::allocate calls made so far
  sessionNo,             \* sessions started so far on this Pool
  poolsAtStart,          \* per thread: pools.len() when its session started
  resets,                \* per thread: LinearPoolAllocator::reset runs of its session
  lastPool,              \* per thread: pool index that served its last allocate, or -1
  alloc_error,           \* per thread: why its last allocate panicked, or "none"
  peakBlocks,            \* history: the largest ceil(N / block_size) over the
                         \* allocation counts N that sessions have reached
  descriptor             \* per thread: the Descriptor its last allocate returned:
                         \* "none" (out of scope) | "fresh" | "written"

allocVars == << pools, locked, pc, sess, current_allocations, calls, sessionNo,
                poolsAtStart, resets, lastPool, alloc_error, peakBlocks,
                descriptor >>

\* state of the draw path (backend/vulkan/render.rs)
VARIABLES
  surface_resolution,    \* Render.ctx.surface_resolution (0 x 0: no Render yet)
  renderpass,            \* Render.renderpass (0: no Render yet)
  framebuffer,           \* Render.framebuffer (0: no Render yet)
  framebuffer_info,      \* the FramebufferCreateInfo that framebuffer was made from
  live,                  \* device objects created and not destroyed: <<kind, id>>
  next_id,               \* next handle the device hands out
  invalid_destroy,       \* some destroy_* was given a handle that is not live
  dpc,                   \* where the draw_indexed call stands
  call,                  \* arguments of the current (or last) draw_indexed call
  pipeline,              \* draw_indexed's local `pipeline` (0: none)
  command_buffer,        \* draw_indexed's local `command_buffer`
  device_log,            \* device and queue calls made by the current call, in order
  submitted,             \* queue submissions made by the current call
  draws                  \* draw_indexed calls started so far

drawVars == << surface_resolution, renderpass, framebuffer, framebuffer_info, live, next_id,
               invalid_destroy, dpc, call, pipeline, command_buffer, device_log,
               submitted, draws >>

\* calls of the two pure functions of backend/vulkan/render.rs
VARIABLES
  format_call,           \* last vertex_format call: its argument and outcome
  input_call             \* last vertex_input call: its argument and outcome

vertexVars == << format_call, input_call >>

\* state of the buffers (buffer.rs)
VARIABLES
  buffers,               \* the buffers made so far, in order of creation
  last_op                \* the last buffer operation, its target and its outcome

bufferVars == << buffers, last_op >>

\* CreatePool::create_pool(alloc_size, layout, sizes): a pool with room for
\* alloc_size descriptor sets, none allocated.
create_pool(alloc_size) == [alloc_size |-> alloc_size, sets |-> 0]

\* PoolApi::create_descriptor: one more descriptor set out of the pool, which
\* the backend refuses once alloc_size sets are outstanding.
PoolCreateDescriptor(p) ==
  IF p.sets < p.alloc_size
    THEN [ok |-> TRUE, pool |-> [p EXCEPT !.sets = @ + 1]]
    ELSE [ok |-> FALSE, pool |-> p]

\* PoolApi::reset: all-or-nothing, every set of the pool is returned.
PoolReset(p) == [p EXCEPT !.sets = 0]

\* LinearPoolAllocator::allocate_additional_pool (the create_pool call succeeded)
allocate_additional_pool(ps) == Append(ps, create_pool(block_size))

\* reset whose loop stops one pool short
reset_SkipsLast(ps) ==
  [i \in DOMAIN ps |-> IF i = Len(ps) THEN ps[i] ELSE PoolReset(ps[i])]

\* reset that resets no pool
reset_Nothing(ps) == ps

\* reset that gives the pools back to the device and empties the list
reset_DropsPools(ps) == << >>

\* LinearPoolAllocator::reset: for pool in &mut self.pools { pool.inner.reset() }
reset(ps) == [i \in DOMAIN ps |-> PoolReset(ps[i])]

\* the index computed for blocks one set larger than the pools are
allocator_index_WiderBlock(n) == n \div (block_size + 1)

\* the index rounded up instead of down
allocator_index_RoundsUp(n) == (n + block_size - 1) \div block_size

\* Allocator::allocate: let allocator_index = self.current_allocations / allocator.block_size
allocator_index(n) == n \div block_size

\* growth only once the index is past the end by more than one
NeedsPool_Late(n, ps) == (n \div block_size) > Len(ps)

\* growth one pool ahead of need
NeedsPool_Eager(n, ps) == (n \div block_size) + 1 >= Len(ps)

\* Allocator::allocate: if allocator_index >= allocator.pools.len()
NeedsPool(n, ps) == allocator_index(n) >= Len(ps)

\* a lock that never makes the caller wait
MutexFree_NoWait == TRUE

\* Mutex::lock can return only while no MutexGuard exists
MutexFree == ~locked

\* a Descriptor that borrows nothing from its session
Borrowed_Never(t) == FALSE

\* allocate<'alloc>(&'alloc mut self) -> Descriptor<'alloc, T>: while the
\* Descriptor is in scope the session is mutably borrowed, so the caller
\* can neither call allocate on it again nor let it go (drop moves it)
Borrowed(t) == descriptor[t] # "none"

AllocInit ==
  /\ pools = << >>
  /\ locked = FALSE
  /\ pc = [t \in Threads |-> "idle"]
  /\ sess = [t \in Threads |-> "none"]
  /\ current_allocations = [t \in Threads |-> 0]
  /\ calls = 0
  /\ sessionNo = 0
  /\ poolsAtStart = [t \in Threads |-> 0]
  /\ resets = [t \in Threads |-> 0]
  /\ lastPool = [t \in Threads |-> -1]
  /\ alloc_error = [t \in Threads |-> "none"]
  /\ peakBlocks = 0
  /\ descriptor = [t \in Threads |-> "none"]

\* A thread calls Pool::allocate and reaches self.allocator.lock().  The
\* call takes &self, so a thread that already owns a session may make it too.
PoolAllocate(t) ==
  /\ pc[t] \in {"idle", "held"}
  /\ calls < MaxCalls
  /\ calls' = calls + 1
  /\ pc' = [pc EXCEPT ![t] = "lock"]
  /\ UNCHANGED << pools, locked, sess, current_allocations, sessionNo,
                  poolsAtStart, resets, lastPool, alloc_error >>
  /\ UNCHANGED << peakBlocks, descriptor >>
  /\ UNCHANGED << drawVars, vertexVars, bufferVars >>

\* a session whose counter starts at the number of pools there are
LockAcquire_CountsPools(t) ==
  /\ pc[t] = "lock"
  /\ MutexFree
  /\ locked' = TRUE
  /\ pc' = [pc EXCEPT ![t] = "held"]
  /\ sess' = [sess EXCEPT ![t] = "live"]
  /\ current_allocations' = [current_allocations EXCEPT ![t] = Len(pools)]
  /\ sessionNo' = sessionNo + 1
  /\ poolsAtStart' = [poolsAtStart EXCEPT ![t] = Len(pools)]
  /\ resets' = [resets EXCEPT ![t] = 0]
  /\ lastPool' = [lastPool EXCEPT ![t] = -1]
  /\ alloc_error' = [alloc_error EXCEPT ![t] = "none"]
  /\ UNCHANGED << pools, calls >>
  /\ UNCHANGED << peakBlocks, descriptor >>
  /\ UNCHANGED << drawVars, vertexVars, bufferVars >>

\* lock() returns the guard and Pool::allocate returns
\* Allocator { allocator: guard, current_allocations: 0 }.
LockAcquire(t) ==
  /\ pc[t] = "lock"
  /\ MutexFree
  /\ locked' = TRUE
  /\ pc' = [pc EXCEPT ![t] = "held"]
  /\ sess' = [sess EXCEPT ![t] = "live"]
  /\ current_allocations' = [current_allocations EXCEPT ![t] = 0]
  /\ sessionNo' = sessionNo + 1
  /\ poolsAtStart' = [poolsAtStart EXCEPT ![t] = Len(pools)]
  /\ resets' = [resets EXCEPT ![t] = 0]
  /\ lastPool' = [lastPool EXCEPT ![t] = -1]
  /\ alloc_error' = [alloc_error EXCEPT ![t] = "none"]
  /\ UNCHANGED << pools, calls >>
  /\ UNCHANGED << peakBlocks, descriptor >>
  /\ UNCHANGED << drawVars, vertexVars, bufferVars >>

\* The allocate call panics at step `why`; the pool list is left as `ps`.
AllocatePanics(t, ps, why) ==
  /\ pools' = ps
  /\ pc' = [pc EXCEPT ![t] = "unwind"]
  /\ alloc_error' = [alloc_error EXCEPT ![t] = why]
  /\ UNCHANGED << current_allocations, lastPool, peakBlocks, descriptor >>

\* Allocator::allocate with every backend object creation succeeding.
Allocate(t) ==
  /\ pc[t] = "held"
  /\ ~Borrowed(t)
  /\ current_allocations[t] < MaxAllocs
  /\ LET idx   == allocator_index(current_allocations[t])
         grown == IF NeedsPool(current_allocations[t], pools)
                    THEN allocate_additional_pool(pools)
                    ELSE pools
     IN  IF idx >= Len(grown)
           THEN AllocatePanics(t, grown, "bounds")      \* pools[allocator_index]
           ELSE LET r == PoolCreateDescriptor(grown[idx + 1])
                IN  IF ~r.ok
                      THEN AllocatePanics(t, grown, "exhausted")
                      ELSE /\ pools' = [grown EXCEPT ![idx + 1] = r.pool]
                           /\ current_allocations' =
                                [current_allocations EXCEPT ![t] = @ + 1]
                           /\ lastPool' = [lastPool EXCEPT ![t] = idx]
                           /\ peakBlocks' =
                                IF (current_allocations[t] \div block_size) + 1
                                     > peakBlocks
                                  THEN (current_allocations[t] \div block_size) + 1
                                  ELSE peakBlocks
                           /\ descriptor' = [descriptor EXCEPT ![t] = "fresh"]
                           /\ UNCHANGED << pc, alloc_error >>
  /\ UNCHANGED << locked, sess, calls, sessionNo, poolsAtStart, resets >>
  /\ UNCHANGED << drawVars, vertexVars, bufferVars >>

\* an allocate that answers a failed create_pool by calling it again and
\* carrying on with the pool of the second call
AllocateCreatePoolFails_Retries(t) ==
  /\ pc[t] = "held"
  /\ ~Borrowed(t)
  /\ current_allocations[t] < MaxAllocs
  /\ NeedsPool(current_allocations[t], pools)
  /\ pools' = allocate_additional_pool(pools)
  /\ alloc_error' = [alloc_error EXCEPT ![t] = "create_pool"]
  /\ UNCHANGED << pc, current_allocations, lastPool >>
  /\ UNCHANGED << locked, sess, calls, sessionNo, poolsAtStart, resets >>
  /\ UNCHANGED << peakBlocks, descriptor >>
  /\ UNCHANGED << drawVars, vertexVars, bufferVars >>

\* Allocator::allocate needs a pool and the backend's create_pool fails: the
\* call unwinds out of allocate_additional_pool before pools.push.
AllocateCreatePoolFails(t) ==
  /\ pc[t] = "held"
  /\ ~Borrowed(t)
  /\ current_allocations[t] < MaxAllocs
  /\ NeedsPool(current_allocations[t], pools)
  /\ AllocatePanics(t, pools, "create_pool")
  /\ UNCHANGED << locked, sess, calls, sessionNo, poolsAtStart, resets >>
  /\ UNCHANGED << drawVars, vertexVars, bufferVars >>

\* The caller's code panics while it owns the session.
CallerPanics(t) ==
  /\ pc[t] = "held"
  /\ pc' = [pc EXCEPT ![t] = "unwind"]
  /\ UNCHANGED << pools, locked, sess, current_allocations, calls, sessionNo,
                  poolsAtStart, resets, lastPool, alloc_error >>
  /\ UNCHANGED << peakBlocks, descriptor >>
  /\ UNCHANGED << drawVars, vertexVars, bufferVars >>

\* a drop that lets go of the guard first and leaves the reset for later
DropReset_ReleasesFirst(t) ==
  /\ pc[t] \in {"held", "unwind"}
  /\ ~Borrowed(t)
  /\ locked' = FALSE
  /\ resets' = [resets EXCEPT ![t] = @ + 1]
  /\ pc' = [pc EXCEPT ![t] = "drop"]
  /\ UNCHANGED << pools, sess, current_allocations, calls, sessionNo,
                  poolsAtStart, lastPool, alloc_error >>
  /\ UNCHANGED << peakBlocks, descriptor >>
  /\ UNCHANGED << drawVars, vertexVars, bufferVars >>

\* The session goes out of scope (end of scope, early return, or unwinding):
\* Drop for Allocator runs self.allocator.reset().
DropReset(t) ==
  /\ pc[t] \in {"held", "unwind"}
  /\ ~Borrowed(t)
  /\ pools' = reset(pools)
  /\ resets' = [resets EXCEPT ![t] = @ + 1]
  /\ pc' = [pc EXCEPT ![t] = "drop"]
  /\ UNCHANGED << locked, sess, current_allocations, calls, sessionNo,
                  poolsAtStart, lastPool, alloc_error >>
  /\ UNCHANGED << peakBlocks, descriptor >>
  /\ UNCHANGED << drawVars, vertexVars, bufferVars >>

\* a session end that keeps the mutex locked
Unlock_KeepsLock(t) ==
  /\ pc[t] = "drop"
  /\ locked' = locked
  /\ pc' = [pc EXCEPT ![t] = "idle"]
  /\ sess' = [sess EXCEPT ![t] = "ended"]
  /\ current_allocations' = [current_allocations EXCEPT ![t] = 0]
  /\ lastPool' = [lastPool EXCEPT ![t] = -1]
  /\ alloc_error' = [alloc_error EXCEPT ![t] = "none"]
  /\ poolsAtStart' = [poolsAtStart EXCEPT ![t] = 0]
  /\ UNCHANGED << pools, calls, sessionNo, resets >>
  /\ UNCHANGED << peakBlocks, descriptor >>
  /\ UNCHANGED << drawVars, vertexVars, bufferVars >>

\* After Drop::drop the fields are dropped: the MutexGuard unlocks the mutex.
Unlock(t) ==
  /\ pc[t] = "drop"
  /\ locked' = FALSE
  /\ pc' = [pc EXCEPT ![t] = "idle"]
  /\ sess' = [sess EXCEPT ![t] = "ended"]
  /\ current_allocations' = [current_allocations EXCEPT ![t] = 0]
  /\ lastPool' = [lastPool EXCEPT ![t] = -1]
  /\ alloc_error' = [alloc_error EXCEPT ![t] = "none"]
  /\ poolsAtStart' = [poolsAtStart EXCEPT ![t] = 0]
  /\ UNCHANGED << pools, calls, sessionNo, resets >>
  /\ UNCHANGED << peakBlocks, descriptor >>
  /\ UNCHANGED << drawVars, vertexVars, bufferVars >>

\* descriptor.update(&data): the backend writes the bindings into the set.
\* The caller needs nothing but the Descriptor to make the call.
UpdateDescriptor(t) ==
  /\ pc[t] \in {"held", "idle"}
  /\ descriptor[t] # "none"
  /\ descriptor' = [descriptor EXCEPT ![t] = "written"]
  /\ UNCHANGED << pools, locked, pc, sess, current_allocations, calls,
                  sessionNo, poolsAtStart, resets, lastPool, alloc_error,
                  peakBlocks >>
  /\ UNCHANGED << drawVars, vertexVars, bufferVars >>

\* The Descriptor goes out of scope (last use, end of block, or unwinding,
\* which drops it before the session declared ahead of it); it has no Drop.
ReleaseDescriptor(t) ==
  /\ pc[t] \in {"held", "unwind", "idle"}
  /\ descriptor[t] # "none"
  /\ descriptor' = [descriptor EXCEPT ![t] = "none"]
  /\ UNCHANGED << pools, locked, pc, sess, current_allocations, calls,
                  sessionNo, poolsAtStart, resets, lastPool, alloc_error,
                  peakBlocks >>
  /\ UNCHANGED << drawVars, vertexVars, bufferVars >>

AllocNext ==
  \E t \in Threads :
    \/ PoolAllocate(t)
    \/ LockAcquire(t)
    \/ Allocate(t)
    \/ AllocateCreatePoolFails(t)
    \/ UpdateDescriptor(t)
    \/ ReleaseDescriptor(t)
    \/ CallerPanics(t)
    \/ DropReset(t)
    \/ Unlock(t)

(* --------------------- backend/vulkan/render.rs ----------------------- *)
\* draw_indexed calls made in one run
MaxDraws == 2
\* longest vertex_input slice passed to draw_indexed
MaxInputs == 1
\* largest F32 component width passed in a VertexInputData
MaxWidth == 5

\* `x as f32` for a u32: exact below 2^24, which covers every surface extent
\* a device reports; above that the value is rounded to 24 significant bits.
AsF32(n) ==
  IF n < 16777216 THEN n
  ELSE LET RECURSIVE Ulp(_)
           Ulp(m) == IF m < 16777216 THEN 1 ELSE 2 * Ulp(m \div 2)
           u == Ulp(n)
           lo == (n \div u) * u
           r  == n - lo
       IN  IF 2 * r < u THEN lo
           ELSE IF 2 * r > u THEN lo + u
           ELSE IF (lo \div u) % 2 = 0 THEN lo ELSE lo + u

SurfaceResolutions == { [width |-> 800, height |-> 600], [width |-> 1, height |-> 1] }

\* Option<Shader>: None is NoShader
NoShader == [present |-> FALSE, shader_module |-> 0]
Shaders(m) == { NoShader, [present |-> TRUE, shader_module |-> m] }
PipelineStates ==
  [vertex_shader : Shaders(31), fragment_shader : Shaders(32)]

\* &BufferApi arguments: a Vulkan BufferData or some other backend's buffer
BufferArgs(h) == { [backend |-> "vulkan", buffer |-> h],
                   [backend |-> "other", buffer |-> h + 1] }

\* VertexInputData { location, binding, offset, vertex_type: F32(size) }
\* (a draw only depends on whether a width is supported: one width below
\* the supported ones, one of them, and the largest one)
VertexInputDatas ==
  [location : {1}, binding : {0}, offset : {8}, vertex_type : {0, 3, MaxWidth}]
RECURSIVE SeqsUpTo(_, _)
SeqsUpTo(S, n) ==
  IF n = 0 THEN { << >> }
  ELSE LET shorter == SeqsUpTo(S, n - 1)
       IN  shorter \cup { Append(q, x) : q \in { r \in shorter : Len(r) = n - 1 }, x \in S }
VertexInputs == SeqsUpTo(VertexInputDatas, MaxInputs)

IndexCounts == {0, 3, 2147483647}

\* a vertex_format that treats every wider vector as four floats
vertex_format_ClampsWide(size) ==
  CASE size = 1 -> "R32_SFLOAT"
    [] size = 2 -> "R32G32_SFLOAT"
    [] size = 3 -> "R32G32B32_SFLOAT"
    [] size >= 4 -> "R32G32B32A32_SFLOAT"
    [] OTHER    -> "unreachable"

\* vertex_format: F32(1..4) -> the 32-bit float formats, anything else unreachable!()
vertex_format(size) ==
  CASE size = 1 -> "R32_SFLOAT"
    [] size = 2 -> "R32G32_SFLOAT"
    [] size = 3 -> "R32G32B32_SFLOAT"
    [] size = 4 -> "R32G32B32A32_SFLOAT"
    [] OTHER    -> "unreachable"

\* vertex_input: one VertexInputAttributeDescription per element, in order
vertex_input(vi) ==
  [i \in DOMAIN vi |->
     [location |-> vi[i].location, binding |-> vi[i].binding,
      offset |-> vi[i].offset, format |-> vertex_format(vi[i].vertex_type)]]

\* vertex_input panics when some element hits unreachable!()
VertexInputPanics(vi) ==
  \E i \in DOMAIN vi : vertex_format(vi[i].vertex_type) = "unreachable"

\* a downcast that accepts the buffer of any backend
DowncastOk_AnyBackend(buf) == buf.backend \in {"vulkan", "other"}

\* buffer.downcast_ref::<BufferData>() is Some
DowncastOk(buf) == buf.backend = "vulkan"

\* the closure with the pipeline bound before the render pass begins
RecordedCommands_BindFirst(rp, fb, res, pipe, vb, ib, len) ==
  << [cmd |-> "bind_pipeline", args |-> << "GRAPHICS", pipe >>],
     [cmd |-> "begin_render_pass",
      args |-> << rp, fb, << 0, 0 >>, << res.width, res.height >>,
                  << << 0, 0, 0, 0 >>, << 1, 0 >> >>, "INLINE" >>],
     [cmd |-> "set_viewport",
      args |-> << 0, << << 0, 0, AsF32(res.width), AsF32(res.height), 0, 1 >> >> >>],
     [cmd |-> "set_scissor",
      args |-> << 0, << << 0, 0, res.width, res.height >> >> >>],
     [cmd |-> "bind_vertex_buffers", args |-> << 0, << vb.buffer >>, << 0 >> >>],
     [cmd |-> "bind_index_buffer", args |-> << ib.buffer, 0, "UINT32" >>],
     [cmd |-> "draw_indexed", args |-> << len, 1, 0, 0, 1 >>],
     [cmd |-> "end_render_pass", args |-> << >>] >>

\* the closure given to CommandBuffer::record, in the order it issues commands
RecordedCommands(rp, fb, res, pipe, vb, ib, len) ==
  << [cmd |-> "begin_render_pass",
      args |-> << rp, fb, << 0, 0 >>, << res.width, res.height >>,
                  << << 0, 0, 0, 0 >>, << 1, 0 >> >>, "INLINE" >>],
     [cmd |-> "bind_pipeline", args |-> << "GRAPHICS", pipe >>],
     [cmd |-> "set_viewport",
      args |-> << 0, << << 0, 0, AsF32(res.width), AsF32(res.height), 0, 1 >> >> >>],
     [cmd |-> "set_scissor",
      args |-> << 0, << << 0, 0, res.width, res.height >> >> >>],
     [cmd |-> "bind_vertex_buffers", args |-> << 0, << vb.buffer >>, << 0 >> >>],
     [cmd |-> "bind_index_buffer", args |-> << ib.buffer, 0, "UINT32" >>],
     [cmd |-> "draw_indexed", args |-> << len, 1, 0, 0, 1 >>],
     [cmd |-> "end_render_pass", args |-> << >>] >>

NoCall == [state |-> [vertex_shader |-> NoShader, fragment_shader |-> NoShader],
           stride |-> 0, vertex_input |-> << >>,
           vertex_buffer |-> [backend |-> "none", buffer |-> 0],
           index_buffer |-> [backend |-> "none", buffer |-> 0],
           len |-> 0]

NoFramebuffer == [render_pass |-> 0, width |-> 0, height |-> 0, layers |-> 0]

DrawInit ==
  /\ surface_resolution = [width |-> 0, height |-> 0]
  /\ renderpass = 0
  /\ framebuffer = 0
  /\ framebuffer_info = NoFramebuffer
  /\ live = {}
  /\ next_id = 1
  /\ invalid_destroy = FALSE
  /\ dpc = "none"
  /\ call = NoCall
  /\ pipeline = 0
  /\ command_buffer = << >>
  /\ device_log = << >>
  /\ submitted = << >>
  /\ draws = 0

\* a destroy call that is missing
Destroy_Missing(objs, kind, id) == objs

\* device.destroy_*(handle): the object stops being live
Destroy(objs, kind, id) == objs \ { << kind, id >> }

\* a framebuffer made without the render pass it is meant for
create_framebuffer_Unbound(rp, res) ==
  [render_pass |-> 0, width |-> res.width, height |-> res.height, layers |-> 1]

\* create_framebuffer(ctx, renderpass, images): the FramebufferCreateInfo
\* names the render pass and takes its extent from ctx.surface_resolution
create_framebuffer(rp, res) ==
  [render_pass |-> rp, width |-> res.width, height |-> res.height, layers |-> 1]

\* Context::create_render: create_renderpass, then create_framebuffer with it
CreateRender ==
  /\ dpc = "none"
  /\ renderpass = 0
  /\ surface_resolution' \in SurfaceResolutions      \* ctx: self.clone()
  /\ \E rp_ok, fb_ok \in BOOLEAN :
       IF ~rp_ok
         THEN /\ dpc' = "no_render"           \* create_render_pass(..).unwrap()
              /\ UNCHANGED << renderpass, framebuffer, framebuffer_info, live,
                              next_id >>
       ELSE IF ~fb_ok
         THEN /\ dpc' = "no_render"           \* create_framebuffer(..).unwrap()
              /\ live' = live \cup { << "render_pass", next_id >> }
              /\ next_id' = next_id + 1
              /\ UNCHANGED << renderpass, framebuffer, framebuffer_info >>
         ELSE /\ renderpass' = next_id
              /\ framebuffer' = next_id + 1
              /\ framebuffer_info' = create_framebuffer(next_id, surface_resolution')
              /\ live' = live \cup { << "render_pass", next_id >>,
                                     << "framebuffer", next_id + 1 >> }
              /\ next_id' = next_id + 2
              /\ dpc' = "ready"
  /\ UNCHANGED << invalid_destroy, call, pipeline, command_buffer, device_log,
                  submitted, draws >>
  /\ UNCHANGED << allocVars, vertexVars, bufferVars >>

\* draw_indexed is entered with some arguments
DrawBegin ==
  /\ dpc \in {"ready", "returned", "panicked"}
  /\ draws < MaxDraws
  /\ draws' = draws + 1
  /\ \E st \in PipelineStates, vi \in VertexInputs, vb \in BufferArgs(11),
        ib \in BufferArgs(21), len \in IndexCounts :
       call' = [state |-> st, stride |-> 12, vertex_input |-> vi,
                vertex_buffer |-> vb, index_buffer |-> ib, len |-> len]
  /\ dpc' = "resolve"
  /\ pipeline' = 0
  /\ command_buffer' = << >>
  /\ device_log' = << >>
  /\ submitted' = << >>
  /\ UNCHANGED << surface_resolution, renderpass, framebuffer, framebuffer_info, live, next_id,
                  invalid_destroy >>
  /\ UNCHANGED << allocVars, vertexVars, bufferVars >>

\* vertex_buffer.downcast_ref::<BufferData>().expect("backend"), same for index_buffer
ResolveBuffers ==
  /\ dpc = "resolve"
  /\ dpc' = IF DowncastOk(call.vertex_buffer) /\ DowncastOk(call.index_buffer)
              THEN "create_pipeline" ELSE "panicked"
  /\ UNCHANGED << surface_resolution, renderpass, framebuffer, framebuffer_info, live, next_id,
                  invalid_destroy, call, pipeline, command_buffer, device_log,
                  submitted, draws >>
  /\ UNCHANGED << allocVars, vertexVars, bufferVars >>

\* create_pipeline after the two shader handles were taken: pipeline layout,
\* vertex input, graphics pipeline, destroy_pipeline_layout.  The device
\* answers layout_ok / pipeline_ok to the two create calls.
\* Result: the pipeline handle (0 when the function panicked), what the
\* function created and destroyed, and the device calls it made.
create_pipeline_objects(vi, id, layout_ok, pipeline_ok) ==
  IF ~layout_ok
    THEN [pipeline |-> 0, created |-> {}, destroyed |-> {},
          log |-> << << "create_pipeline_layout", 0 >> >>]
  ELSE IF VertexInputPanics(vi)
    THEN [pipeline |-> 0, created |-> { << "pipeline_layout", id >> },
          destroyed |-> {},
          log |-> << << "create_pipeline_layout", id >> >>]
  ELSE IF ~pipeline_ok
    THEN [pipeline |-> 0, created |-> { << "pipeline_layout", id >> },
          destroyed |-> {},
          log |-> << << "create_pipeline_layout", id >>,
                     << "create_graphics_pipelines", 0 >> >>]
  ELSE [pipeline |-> id + 1,
        created |-> { << "pipeline_layout", id >>, << "pipeline", id + 1 >> },
        destroyed |-> { << "pipeline_layout", id >> },
        log |-> << << "create_pipeline_layout", id >>,
                   << "create_graphics_pipelines", id + 1 >>,
                   << "destroy_pipeline_layout", id >> >>]

\* create_pipeline that only insists on the vertex shader
create_pipeline_NoFragmentCheck(st, vi, id, layout_ok, pipeline_ok) ==
  IF ~st.vertex_shader.present
    THEN [pipeline |-> 0, created |-> {}, destroyed |-> {}, log |-> << >>]
    ELSE create_pipeline_objects(vi, id, layout_ok, pipeline_ok)

\* create_pipeline(ctx, state, stride, vertex_input, renderpass):
\* state.vertex_shader.as_ref().expect(..), state.fragment_shader.as_ref().expect(..),
\* then the device objects
create_pipeline(st, vi, id, layout_ok, pipeline_ok) ==
  IF ~st.vertex_shader.present \/ ~st.fragment_shader.present
    THEN [pipeline |-> 0, created |-> {}, destroyed |-> {}, log |-> << >>]
    ELSE create_pipeline_objects(vi, id, layout_ok, pipeline_ok)

\* let pipeline = create_pipeline(&self.ctx, state, stride, vertex_input, self.renderpass)
CreatePipeline ==
  /\ dpc = "create_pipeline"
  /\ \E layout_ok, pipeline_ok \in BOOLEAN :
       LET r == create_pipeline(call.state, call.vertex_input, next_id,
                                layout_ok, pipeline_ok)
       IN  /\ pipeline' = r.pipeline
           /\ live' = (live \cup r.created) \ r.destroyed
           /\ invalid_destroy' =
                (invalid_destroy \/ ~(r.destroyed \subseteq (live \cup r.created)))
           /\ next_id' = next_id + Cardinality(r.created)
           /\ device_log' = device_log \o r.log
           /\ dpc' = IF r.pipeline = 0 THEN "panicked" ELSE "record"
  /\ UNCHANGED << surface_resolution, renderpass, framebuffer, framebuffer_info, call,
                  command_buffer, submitted, draws >>
  /\ UNCHANGED << allocVars, vertexVars, bufferVars >>

\* let command_buffer = CommandBuffer::record(ctx, |draw_command_buffer| { .. })
Record ==
  /\ dpc = "record"
  /\ command_buffer' =
       RecordedCommands(renderpass, framebuffer, surface_resolution, pipeline,
                        call.vertex_buffer, call.index_buffer, call.len)
  /\ device_log' = Append(device_log, << "record", pipeline >>)
  /\ dpc' = "submit"
  /\ UNCHANGED << surface_resolution, renderpass, framebuffer, framebuffer_info, live, next_id,
                  invalid_destroy, call, pipeline, submitted, draws >>
  /\ UNCHANGED << allocVars, vertexVars, bufferVars >>

\* a submission that signals a semaphore when the commands complete
Submission_SignalsSemaphore(cb) ==
  [queue |-> "present_queue",
   wait_stages |-> << "BOTTOM_OF_PIPE" >>,
   wait_semaphores |-> << >>,
   signal_semaphores |-> << "rendering_complete" >>,
   command_buffer |-> cb]

\* the arguments of ctx.present_queue.submit(ctx, &[BOTTOM_OF_PIPE], &[], &[],
\* command_buffer): the queue, the wait stage mask, the two semaphore lists
\* (both empty) and the command buffer
Submission(cb) ==
  [queue |-> "present_queue",
   wait_stages |-> << "BOTTOM_OF_PIPE" >>,
   wait_semaphores |-> << >>,
   signal_semaphores |-> << >>,
   command_buffer |-> cb]

\* ctx.present_queue.submit(..) with the command buffer just recorded
Submit ==
  /\ dpc = "submit"
  /\ submitted' = Append(submitted, Submission(command_buffer))
  /\ device_log' = Append(device_log, << "submit", pipeline >>)
  /\ dpc' = "destroy"
  /\ UNCHANGED << surface_resolution, renderpass, framebuffer, framebuffer_info, live, next_id,
                  invalid_destroy, call, pipeline, command_buffer, draws >>
  /\ UNCHANGED << allocVars, vertexVars, bufferVars >>

\* self.ctx.device.destroy_pipeline(pipeline, None), then draw_indexed returns
DestroyPipeline ==
  /\ dpc = "destroy"
  /\ live' = Destroy(live, "pipeline", pipeline)
  /\ invalid_destroy' = (invalid_destroy \/ << "pipeline", pipeline >> \notin live)
  /\ device_log' = Append(device_log, << "destroy_pipeline", pipeline >>)
  /\ dpc' = "returned"
  /\ UNCHANGED << surface_resolution, renderpass, framebuffer, framebuffer_info, next_id, call,
                  pipeline, command_buffer, submitted, draws >>
  /\ UNCHANGED << allocVars, vertexVars, bufferVars >>

DrawNext ==
  \/ CreateRender
  \/ DrawBegin
  \/ ResolveBuffers
  \/ CreatePipeline
  \/ Record
  \/ Submit
  \/ DestroyPipeline

(* ------------- vertex_format and vertex_input on their own ------------ *)
\* longest slice passed to vertex_input
MaxAttrs == 2

\* F32 widths passed to the two functions: 0 .. MaxWidth and one large u32
Widths == (0 .. MaxWidth) \cup {255}

\* the VertexInputData values passed to vertex_input
AttrDatas ==
  [location : {0, 1}, binding : {0, 2}, offset : {0, 12},
   vertex_type : 0 .. MaxWidth]

NoFormatCall == [called |-> FALSE, size |-> 0, panicked |-> FALSE, format |-> "none"]
NoInputCall == [called |-> FALSE, input |-> << >>, panicked |-> FALSE, attrs |-> << >>]

VertexInit ==
  /\ format_call = NoFormatCall
  /\ input_call = NoInputCall

\* vertex_format(&VertexType::F32(size)): a format, or the panic of
\* unreachable!() and no value
VertexFormatCall ==
  /\ ~format_call.called /\ ~input_call.called
  /\ \E size \in Widths :
       LET f == vertex_format(size)
       IN  format_call' =
             IF f = "unreachable"
               THEN [called |-> TRUE, size |-> size, panicked |-> TRUE,
                     format |-> "none"]
               ELSE [called |-> TRUE, size |-> size, panicked |-> FALSE,
                     format |-> f]
  /\ UNCHANGED input_call
  /\ UNCHANGED << allocVars, drawVars, bufferVars >>

\* vertex_input(slice): the collected descriptions, or the panic of the
\* first element whose vertex_format is unreachable!() and no value
VertexInputCall ==
  /\ ~format_call.called /\ ~input_call.called
  /\ \E vi \in SeqsUpTo(AttrDatas, MaxAttrs) :
       input_call' =
         IF VertexInputPanics(vi)
           THEN [called |-> TRUE, input |-> vi, panicked |-> TRUE,
                 attrs |-> << >>]
           ELSE [called |-> TRUE, input |-> vi, panicked |-> FALSE,
                 attrs |-> vertex_input(vi)]
  /\ UNCHANGED format_call
  /\ UNCHANGED << allocVars, drawVars, bufferVars >>

\* the call is over; the next one starts from scratch
VertexReturn ==
  /\ format_call.called \/ input_call.called
  /\ format_call' = NoFormatCall
  /\ input_call' = NoInputCall
  /\ UNCHANGED << allocVars, drawVars, bufferVars >>

VertexNext ==
  \/ VertexFormatCall
  \/ VertexInputCall
  \/ VertexReturn

(* ------------------------------ buffer.rs ----------------------------- *)
\* buffers made in one run
MaxBuffers == 2
\* longest slice passed to from_slice
MaxSliceLen == 2

\* element values of the slices
ElemValues == {1, 9}

\* BitFlags<BufferUsage> arguments: one flag, and two flags together
Usages == { {"Vertex"}, {"Index", "Uniform"} }

\* the data: &[T] arguments of from_slice
Slices == SeqsUpTo(ElemValues, MaxSliceLen) \ { << >> }

\* the closures passed to map_memory: one that only reads (at = 0), and the
\* ones that overwrite the element at one index
Closures == [at : 0 .. MaxSliceLen, value : ElemValues]

NoOp == [op |-> "none", buffer |-> 0, ok |-> TRUE, view |-> << >>]

BufferInit ==
  /\ buffers = << >>
  /\ last_op = NoOp

\* Buffer::from_slice -> Result<Buffer<T, HostVisible, Backend>, BufferError>:
\* a HostVisible buffer holding a copy of the slice
from_slice(usage, data) ==
  [property |-> "HostVisible", usage |-> usage, data |-> data, source |-> 0]

\* a map_memory offered by buffers of either locality
CanMap_AnyLocality(b) == b.property \in {"HostVisible", "DeviceLocal"}

\* map_memory is a method of impl Buffer<T, HostVisible, Backend> only
CanMap(b) == b.property = "HostVisible"

\* map_memory(f): f runs on the mutable view of the buffer's elements
map_memory(b, f) ==
  IF f.at \in DOMAIN b.data
    THEN [b EXCEPT !.data = [@ EXCEPT ![f.at] = f.value]]
    ELSE b

\* a copy that hands the source's memory over and leaves the source empty
copy_to_device_local_Moves(bs, i) ==
  Append([bs EXCEPT ![i].data = << >>],
         [property |-> "DeviceLocal", usage |-> bs[i].usage,
          data |-> bs[i].data, source |-> i])

\* copy_to_device_local(&self) -> ImplBuffer<T, DeviceLocal, Backend>: a new
\* DeviceLocal buffer with the source's size, usage and contents; the source
\* is borrowed immutably and stays as it is
copy_to_device_local(bs, i) ==
  Append(bs, [property |-> "DeviceLocal", usage |-> bs[i].usage,
              data |-> bs[i].data, source |-> i])

\* Buffer::from_slice(context, usage, data); the backend may refuse the
\* allocation (BufferError)
FromSlice ==
  /\ Len(buffers) < MaxBuffers
  /\ \E usage \in Usages, data \in Slices, ok \in BOOLEAN :
       IF ok
         THEN /\ buffers' = Append(buffers, from_slice(usage, data))
              /\ last_op' = [op |-> "from_slice", buffer |-> Len(buffers) + 1,
                             ok |-> TRUE, view |-> << >>]
         ELSE /\ buffers' = buffers
              /\ last_op' = [op |-> "from_slice", buffer |-> 0,
                             ok |-> FALSE, view |-> << >>]
  /\ UNCHANGED << allocVars, drawVars, vertexVars >>

\* buffer.map_memory(f); the backend may fail to map (MappingError), and
\* then f is not run
MapMemory ==
  /\ \E i \in DOMAIN buffers, f \in Closures, ok \in BOOLEAN :
       /\ CanMap(buffers[i])
       /\ IF ok
            THEN /\ buffers' = [buffers EXCEPT ![i] = map_memory(@, f)]
                 /\ last_op' = [op |-> "map_memory", buffer |-> i, ok |-> TRUE,
                                view |-> buffers[i].data]
            ELSE /\ buffers' = buffers
                 /\ last_op' = [op |-> "map_memory", buffer |-> i,
                                ok |-> FALSE, view |-> << >>]
  /\ UNCHANGED << allocVars, drawVars, vertexVars >>

\* buffer.copy_to_device_local(); the trait does not fix the locality of
\* Self.  The return type has no error: a backend failure is a panic, and
\* no buffer is made.
CopyToDeviceLocal ==
  /\ Len(buffers) < MaxBuffers
  /\ \E i \in DOMAIN buffers, ok \in BOOLEAN :
       IF ok
         THEN /\ buffers' = copy_to_device_local(buffers, i)
              /\ last_op' = [op |-> "copy_to_device_local", buffer |-> i,
                             ok |-> TRUE, view |-> << >>]
         ELSE /\ buffers' = buffers
              /\ last_op' = [op |-> "copy_to_device_local", buffer |-> i,
                             ok |-> FALSE, view |-> << >>]
  /\ UNCHANGED << allocVars, drawVars, vertexVars >>

BufferNext ==
  \/ FromSlice
  \/ MapMemory
  \/ CopyToDeviceLocal

(* --------------------------- specifications --------------------------- *)
vars == << allocVars, drawVars, vertexVars, bufferVars >>

Init == AllocInit /\ DrawInit /\ VertexInit /\ BufferInit

\* buffers made from slices, mapped and copied to device-local memory
NextBuffer == BufferNext
SpecBuffer == Init /\ [][NextBuffer]_vars

\* vertex_format and vertex_input called with every argument in the bounds
NextVertex == VertexNext
SpecVertex == Init /\ [][NextVertex]_vars

\* the allocator used by NumThreads threads; no draw is made
Next == AllocNext
Spec == Init /\ [][Next]_vars

\* one thread drawing on one Render; the allocator is not used
NextDraw == DrawNext
SpecDraw == Init /\ [][NextDraw]_vars

\* The same threads with sessions of at most MaxAllocsFair allocations, and
\* with the scheduling the code relies on: a thread that can run its
\* session's drop does (weak fairness), and parking_lot's eventually fair
\* mutex hands the lock to a thread that keeps waiting (strong fairness).
AllocateFew(t) ==
  current_allocations[t] < MaxAllocsFair /\ Allocate(t)
AllocateCreatePoolFailsFew(t) ==
  current_allocations[t] < MaxAllocsFair /\ AllocateCreatePoolFails(t)
NextFair ==
  \E t \in Threads :
    \/ PoolAllocate(t)
    \/ LockAcquire(t)
    \/ AllocateFew(t)
    \/ AllocateCreatePoolFailsFew(t)
    \/ UpdateDescriptor(t)
    \/ ReleaseDescriptor(t)
    \/ CallerPanics(t)
    \/ DropReset(t)
    \/ Unlock(t)
Fairness ==
  \A t \in Threads :
    /\ WF_vars(ReleaseDescriptor(t))
    /\ WF_vars(DropReset(t))
    /\ WF_vars(Unlock(t))
    /\ SF_vars(LockAcquire(t))
SpecFair == Init /\ [][NextFair]_vars /\ Fairness

(* ------------------------------ claims -------------------------------- *)
CeilDiv(n, b) == (n + b - 1) \div b
Min(a, b) == IF a < b THEN a ELSE b
Max(a, b) == IF a > b THEN a ELSE b

\* the thread owns a session that has not run its drop yet
InSession(t) == sess[t] = "live" /\ pc[t] \in {"held", "unwind", "lock"}

\* C1: in the first session on a new allocator, after N allocate calls there
\* are ceil(N / block_size) pools, allocation i was served by pool
\* i / block_size (so pool k holds min(block_size, N - k * block_size) sets),
\* and with block_size 50: 49 and 50 allocations leave 1 pool, 51 leave 2.
C1_PoolCountIsCeil ==
  \A t \in Threads :
    (InSession(t) /\ sessionNo = 1) =>
      LET N == current_allocations[t]
      IN  /\ Len(pools) = CeilDiv(N, block_size)
          /\ (N > 0 => lastPool[t] = (N - 1) \div block_size)
          /\ \A k \in DOMAIN pools :
               pools[k].sets = Min(block_size, N - (k - 1) * block_size)
          /\ (N \in {49, 50} => Len(pools) = 1)
          /\ (N = 51 => Len(pools) = 2)

C1_Witness ==
  \E t \in Threads :
    /\ InSession(t) /\ sessionNo = 1
    /\ current_allocations[t] = 51 /\ Len(pools) = 2 /\ lastPool[t] = 1

\* C2: at most one thread owns a live session, the mutex is locked while one
\* does, and every change of the pool list (allocate, growth, reset) is a
\* step of the one thread that owns the live session.
C2_MutualExclusion ==
  /\ [](/\ Cardinality({ t \in Threads : sess[t] = "live" }) <= 1
        /\ ((\E t \in Threads : sess[t] = "live") => locked))
  /\ [][pools' # pools =>
          \E t \in Threads :
            /\ sess[t] = "live" /\ pc[t] \in {"held", "unwind"}
            /\ \A u \in Threads \ {t} :
                 /\ sess[u] # "live"
                 /\ pc'[u] = pc[u]
                 /\ current_allocations'[u] = current_allocations[u]
                 /\ resets'[u] = resets[u]]_vars

C2_Witness ==
  \E t, u \in Threads :
    /\ t # u
    /\ sess[t] = "live" /\ pc[t] = "held" /\ current_allocations[t] > 0
    /\ pc[u] = "lock"

\* C3: a session that starts with P pools (left by the session before it)
\* and has made at most P * block_size allocations still has P pools, and
\* none of its allocate calls found a pool exhausted or missing.
C3_ResetClearsCapacity ==
  \A t \in Threads :
    InSession(t) =>
      /\ alloc_error[t] \notin {"exhausted", "bounds"}
      /\ (current_allocations[t] <= poolsAtStart[t] * block_size =>
            Len(pools) = poolsAtStart[t])
      /\ (current_allocations[t] < poolsAtStart[t] * block_size =>
            alloc_error[t] = "none")

C3_Witness ==
  \E t \in Threads :
    /\ InSession(t) /\ sessionNo >= 2
    /\ poolsAtStart[t] = 2
    /\ current_allocations[t] = 2 * block_size
    /\ Len(pools) = 2

\* C4: a session's end runs LinearPoolAllocator::reset exactly once, whatever
\* the exit path (scope end, unwinding, no allocation made), the reset
\* leaves every pool empty, and an ended session does nothing more.
C4_EndsExactlyOnce ==
  /\ [](\A t \in Threads :
          /\ (InSession(t) => resets[t] = 0)
          /\ (pc[t] = "drop" =>
                /\ sess[t] = "live" /\ resets[t] = 1
                /\ \A k \in DOMAIN pools : pools[k].sets = 0)
          /\ (sess[t] = "ended" => resets[t] = 1 /\ pc[t] \in {"idle", "lock"}))
  /\ [][\A t \in Threads :
          /\ (sess[t] = "live" /\ sess'[t] # "live" =>
                pc[t] = "drop" /\ sess'[t] = "ended")
          /\ (sess[t] = "ended" /\ sess'[t] = "ended" =>
                /\ resets'[t] = resets[t]
                /\ current_allocations'[t] = 0
                /\ lastPool'[t] = -1)
          /\ (pc[t] \in {"held", "unwind"} /\ pc'[t] = "drop" =>
                \A k \in DOMAIN pools' : pools'[k].sets = 0)]_vars

C4_Witness ==
  \E t \in Threads :
    /\ pc[t] = "drop" /\ resets[t] = 1
    /\ alloc_error[t] = "create_pool"
    /\ Len(pools) = 2

\* C5 as stated: no waiting call gets a session while a session is live, and
\* every Pool::allocate call that waits for the lock eventually returns a
\* session, also the call of a thread that already owns a session.
C5_EveryWaiterGetsASession ==
  /\ [][\A t \in Threads :
          (pc[t] = "lock" /\ pc'[t] = "held") =>
             \A u \in Threads : sess[u] # "live"]_vars
  /\ \A t \in Threads : (pc[t] = "lock") ~> (pc[t] = "held")

\* C5 amended: no waiting call gets a session while a session is live, and if
\* every session that is started is eventually ended then every waiting call
\* of a thread that does not own a session eventually returns a session.
C5_WaiterWithoutSessionGetsOne ==
  /\ [][\A t \in Threads :
          (pc[t] = "lock" /\ pc'[t] = "held") =>
             \A u \in Threads : sess[u] # "live"]_vars
  /\ (\A u \in Threads : (sess[u] = "live") ~> (sess[u] # "live")) =>
       (\A t \in Threads :
          (pc[t] = "lock" /\ sess[t] # "live") ~> (pc[t] = "held"))

C5_Witness ==
  \E t, u \in Threads :
    /\ t # u
    /\ pc[t] = "lock" /\ sess[t] = "ended"
    /\ sess[u] = "live" /\ pc[u] = "held"

\* C6: a new allocator has no pool, starting a session creates none, an
\* allocate call appends one pool exactly when index
\* current_allocations / block_size does not exist yet, and a pool is only
\* ever appended when every existing pool holds block_size sets.
C6_LazyGrowth ==
  /\ [](sessionNo = 0 => pools = << >>)
  /\ [][/\ ((\E t \in Threads : pc[t] = "lock" /\ pc'[t] = "held") =>
              pools' = pools)
        /\ \A t \in Threads :
             current_allocations'[t] = current_allocations[t] + 1 =>
               Len(pools') = Len(pools) +
                 (IF current_allocations[t] \div block_size >= Len(pools)
                    THEN 1 ELSE 0)
        /\ (Len(pools') # Len(pools) =>
              /\ Len(pools') = Len(pools) + 1
              /\ \A k \in DOMAIN pools : pools[k].sets = block_size
              /\ \E t \in Threads :
                   /\ pc[t] = "held"
                   /\ current_allocations[t] = Len(pools) * block_size)]_vars

C6_Witness ==
  \E t \in Threads :
    /\ InSession(t) /\ sessionNo >= 2
    /\ poolsAtStart[t] = 1 /\ Len(pools) = 2
    /\ current_allocations[t] = block_size + 1

\* the current call was made without a vertex or without a fragment shader
LacksShader ==
  draws > 0 /\ (~call.state.vertex_shader.present \/ ~call.state.fragment_shader.present)

\* the device_log entries whose event is e
Events(e) == { i \in DOMAIN device_log : device_log[i][1] = e }

\* the live objects of one kind
Live(kind) == { o \in live : o[1] = kind }

\* C7: a draw_indexed call whose pipeline_state lacks the vertex or the
\* fragment shader never gets past create_pipeline: it records nothing,
\* submits nothing, creates no device object and ends in a panic.
C7_NoShaderNoSubmit ==
  LacksShader =>
    /\ dpc \in {"resolve", "create_pipeline", "panicked"}
    /\ command_buffer = << >>
    /\ submitted = << >>
    /\ device_log = << >>
    /\ pipeline = 0

C7_Witness ==
  /\ dpc = "panicked"
  /\ call.state.vertex_shader.present /\ ~call.state.fragment_shader.present
  /\ DowncastOk(call.vertex_buffer) /\ DowncastOk(call.index_buffer)
  /\ submitted = << >>

\* C8: a draw_indexed call that returns has made exactly these device calls,
\* in this order: create layout, create one pipeline, destroy layout, record
\* (binding that pipeline), submit, destroy that pipeline.  The pipeline is
\* live from its creation to its destruction and at no other time is any
\* pipeline live; no handle is destroyed that is not live.
C8_PipelineLifetime ==
  /\ ~invalid_destroy
  /\ (dpc = "returned" =>
        /\ pipeline # 0
        /\ device_log = << << "create_pipeline_layout", pipeline - 1 >>,
                           << "create_graphics_pipelines", pipeline >>,
                           << "destroy_pipeline_layout", pipeline - 1 >>,
                           << "record", pipeline >>,
                           << "submit", pipeline >>,
                           << "destroy_pipeline", pipeline >> >>
        /\ command_buffer[2] = [cmd |-> "bind_pipeline",
                                args |-> << "GRAPHICS", pipeline >>]
        /\ Len(submitted) = 1
        /\ submitted[1].queue = "present_queue"
        /\ submitted[1].command_buffer = command_buffer)
  /\ (dpc \in {"record", "submit", "destroy"} =>
        Live("pipeline") = { << "pipeline", pipeline >> })
  /\ (dpc \notin {"record", "submit", "destroy"} => Live("pipeline") = {})
  /\ (dpc = "destroy" => Len(submitted) = 1)
  /\ Cardinality(Events("create_graphics_pipelines")) <= 1
  /\ Cardinality(Events("destroy_pipeline")) <= 1

C8_Witness ==
  /\ dpc = "returned" /\ draws = 2
  /\ pipeline = 6 /\ next_id = 7
  /\ Live("pipeline") = {}

\* C9 as stated: the recorded indexed draw has index count len, instance
\* count 1, first index 0, vertex offset 0 and first instance 0.
C9_DrawIndexedArguments ==
  command_buffer # << >> =>
    /\ Cardinality({ i \in DOMAIN command_buffer :
                       command_buffer[i].cmd = "draw_indexed" }) = 1
    /\ \A i \in DOMAIN command_buffer :
         command_buffer[i].cmd = "draw_indexed" =>
           command_buffer[i].args = << call.len, 1, 0, 0, 0 >>

\* C10: a call records at most one command sequence, and the sequence is:
\* begin render pass (the Render's render pass and framebuffer, clear colour
\* (0,0,0,0), clear depth 1 / stencil 0), bind this call's pipeline, set
\* viewport and set scissor to the whole surface, bind the vertex buffer at
\* binding 0 offset 0, bind the index buffer at offset 0 as UINT32, one
\* indexed draw, end render pass.
C10_CommandOrder ==
  /\ Cardinality(Events("record")) <= 1
  /\ (dpc \in {"submit", "destroy", "returned"} =>
        Cardinality(Events("record")) = 1 /\ command_buffer # << >>)
  /\ (command_buffer # << >> =>
        /\ [i \in DOMAIN command_buffer |-> command_buffer[i].cmd] =
             << "begin_render_pass", "bind_pipeline", "set_viewport",
                "set_scissor", "bind_vertex_buffers", "bind_index_buffer",
                "draw_indexed", "end_render_pass" >>
        /\ command_buffer[1].args[1] = renderpass /\ renderpass # 0
        /\ command_buffer[1].args[2] = framebuffer /\ framebuffer # 0
        /\ command_buffer[1].args[5] = << << 0, 0, 0, 0 >>, << 1, 0 >> >>
        /\ command_buffer[2].args[2] = pipeline /\ pipeline # 0
        /\ << "pipeline", pipeline >> \in live \/ dpc = "returned"
        /\ command_buffer[3].args[2] =
             << << 0, 0, surface_resolution.width, surface_resolution.height,
                   0, 1 >> >>
        /\ command_buffer[4].args[2] =
             << << 0, 0, surface_resolution.width, surface_resolution.height >> >>
        /\ command_buffer[5].args = << 0, << call.vertex_buffer.buffer >>, << 0 >> >>
        /\ command_buffer[6].args = << call.index_buffer.buffer, 0, "UINT32" >>
        /\ command_buffer[7].args[1] = call.len)

C10_Witness ==
  /\ dpc = "submit"
  /\ Len(command_buffer) = 8
  /\ surface_resolution.width = 800
  /\ call.len = 3

\* C11: a draw_indexed call that gets as far as its submission makes exactly
\* one queue submission: to the presentation queue, of the command sequence
\* this call recorded, waiting on no semaphore and signalling none.  A call
\* that has not reached its submission, or that panicked before it, has
\* made none.
C11_OneSubmissionNoSemaphores ==
  /\ Len(submitted) = Cardinality(Events("submit"))
  /\ (dpc \in {"destroy", "returned"} =>
        /\ Len(submitted) = 1
        /\ submitted[1].queue = "present_queue"
        /\ submitted[1].wait_semaphores = << >>
        /\ submitted[1].signal_semaphores = << >>
        /\ submitted[1].command_buffer = command_buffer
        /\ Len(submitted[1].command_buffer) = 8
        /\ submitted[1].command_buffer[2].args[2] = pipeline
        /\ submitted[1].command_buffer[7].args[1] = call.len)
  /\ (dpc \notin {"destroy", "returned"} => submitted = << >>)

C11_Witness ==
  /\ dpc = "returned" /\ draws = 2
  /\ Len(submitted) = 1
  /\ submitted[1].command_buffer[7].args[1] = 0
  /\ submitted[1].wait_semaphores = << >>

\* the format the interface names for a width of 1 to 4 floats
FormatOfWidth == << "R32_SFLOAT", "R32G32_SFLOAT", "R32G32B32_SFLOAT",
                   "R32G32B32A32_SFLOAT" >>

\* C12: vertex_format maps the F32 widths 1, 2, 3, 4 to the one-, two-,
\* three- and four-component 32-bit float formats and panics, returning no
\* format, for every other width; vertex_input returns one description per
\* input element, in input order, with the element's location, binding and
\* offset unchanged and the format of its width, and panics if some width
\* is not 1 to 4.
C12_VertexFormatAndInput ==
  /\ (format_call.called =>
        IF format_call.size \in 1 .. 4
          THEN /\ ~format_call.panicked
               /\ format_call.format = FormatOfWidth[format_call.size]
          ELSE /\ format_call.panicked
               /\ format_call.format = "none")
  /\ (input_call.called =>
        LET vi == input_call.input
        IN  IF \A i \in DOMAIN vi : vi[i].vertex_type \in 1 .. 4
              THEN /\ ~input_call.panicked
                   /\ Len(input_call.attrs) = Len(vi)
                   /\ \A i \in DOMAIN vi :
                        /\ input_call.attrs[i].location = vi[i].location
                        /\ input_call.attrs[i].binding = vi[i].binding
                        /\ input_call.attrs[i].offset = vi[i].offset
                        /\ input_call.attrs[i].format =
                             FormatOfWidth[vi[i].vertex_type]
              ELSE /\ input_call.panicked
                   /\ input_call.attrs = << >>)

\* two elements that differ in every field, both described
C12_Witness ==
  /\ input_call.called /\ ~input_call.panicked
  /\ Len(input_call.attrs) = 2
  /\ input_call.input[1] = [location |-> 1, binding |-> 2, offset |-> 12,
                            vertex_type |-> 3]
  /\ input_call.input[2] = [location |-> 0, binding |-> 0, offset |-> 0,
                            vertex_type |-> 4]
  /\ input_call.attrs[1].format = "R32G32B32_SFLOAT"
  /\ input_call.attrs[2].format = "R32G32B32A32_SFLOAT"

\* the current call was given a vertex or an index buffer of another backend
BackendMismatch ==
  draws > 0 /\ (call.vertex_buffer.backend # "vulkan" \/
                call.index_buffer.backend # "vulkan")

\* C13: a draw_indexed call whose vertex or index buffer belongs to another
\* backend fails where the handles are resolved: that step ends the call in
\* a panic and changes nothing else, so the call creates no pipeline layout
\* and no pipeline, makes no device call, records no command and submits
\* nothing -- whatever its shaders and vertex input are.
C13_BackendMismatchFailsFirst ==
  /\ [](BackendMismatch =>
          /\ dpc \in {"resolve", "panicked"}
          /\ device_log = << >>
          /\ command_buffer = << >>
          /\ submitted = << >>
          /\ pipeline = 0)
  /\ [][dpc = "resolve" /\ BackendMismatch =>
          /\ dpc' = "panicked"
          /\ live' = live /\ next_id' = next_id
          /\ device_log' = << >> /\ command_buffer' = << >>
          /\ submitted' = << >>]_vars

\* the index buffer alone is foreign, shaders and vertex input are fine
C13_Witness ==
  /\ dpc = "panicked"
  /\ call.vertex_buffer.backend = "vulkan" /\ call.index_buffer.backend = "other"
  /\ call.state.vertex_shader.present /\ call.state.fragment_shader.present
  /\ ~VertexInputPanics(call.vertex_input)
  /\ device_log = << >>

\* C14 as stated: when a draw_indexed call fails after it created device
\* objects -- its graphics pipeline cannot be created, say, after its
\* pipeline layout was -- the objects it created are released: once the
\* call has failed, no pipeline layout and no pipeline is live.
C14_FailedDrawReleasesObjects ==
  dpc = "panicked" => Live("pipeline_layout") = {} /\ Live("pipeline") = {}

\* C15: when create_pool fails inside Allocator::allocate, that one step
\* ends the call with the failure (a panic that unwinds to the caller):
\* create_pool is not called again, the pool list is what it was and the
\* session's counter is not incremented.  The session then ends the normal
\* way and no other: its drop resets every pool, once, and only then is
\* the lock released.
C15_CreatePoolFailureIsSurfaced ==
  [][\A t \in Threads :
       /\ (alloc_error[t] # "create_pool" /\ alloc_error'[t] = "create_pool" =>
             /\ pc[t] = "held" /\ pc'[t] = "unwind"
             /\ current_allocations[t] \div block_size >= Len(pools)
             /\ pools' = pools
             /\ current_allocations'[t] = current_allocations[t]
             /\ locked /\ locked')
       /\ (alloc_error[t] = "create_pool" =>
             /\ pc[t] \in {"unwind", "drop"}
             /\ (pc[t] = "unwind" /\ pc'[t] # "unwind" =>
                   /\ pc'[t] = "drop"
                   /\ Len(pools') = Len(pools)
                   /\ \A k \in DOMAIN pools' : pools'[k].sets = 0
                   /\ resets[t] = 0 /\ resets'[t] = 1
                   /\ locked')
             /\ (pc[t] = "drop" /\ pc'[t] # "drop" =>
                   /\ pc'[t] = "idle"
                   /\ sess'[t] = "ended"
                   /\ resets[t] = 1
                   /\ pools' = pools
                   /\ ~locked'))
    ]_vars

\* the 51st allocation of a session could not get its second pool; the
\* session's drop has reset the one pool there is
C15_Witness ==
  \E t \in Threads :
    /\ alloc_error[t] = "create_pool" /\ pc[t] = "drop"
    /\ current_allocations[t] = block_size
    /\ Len(pools) = 1 /\ pools[1].sets = 0
    /\ locked

\* C16: a buffer's locality is fixed when it is made and by how it is made:
\* from_slice makes HostVisible buffers and copy_to_device_local makes
\* DeviceLocal ones, whatever the source; no step changes the locality of
\* an existing buffer; map_memory only ever runs on a HostVisible buffer;
\* and the only step that makes a HostVisible buffer is from_slice, so none
\* derives one from a DeviceLocal buffer.
C16_LocalityIsFixed ==
  /\ [](\A i \in DOMAIN buffers :
          IF buffers[i].source = 0
            THEN buffers[i].property = "HostVisible"
            ELSE buffers[i].property = "DeviceLocal")
  /\ [](last_op.op = "map_memory" =>
          buffers[last_op.buffer].property = "HostVisible")
  /\ [][/\ \A i \in DOMAIN buffers :
            i \in DOMAIN buffers' /\ buffers'[i].property = buffers[i].property
        /\ \A i \in DOMAIN buffers' \ DOMAIN buffers :
            /\ buffers'[i].property = "HostVisible" =>
                  last_op'.op = "from_slice" /\ buffers'[i].source = 0
            /\ last_op'.op = "copy_to_device_local" =>
                  buffers'[i].property = "DeviceLocal"]_vars

\* a HostVisible buffer was mapped and written after its DeviceLocal copy
\* was made; both keep their locality
C16_Witness ==
  /\ Len(buffers) = 2
  /\ buffers[1].property = "HostVisible" /\ buffers[2].property = "DeviceLocal"
  /\ buffers[2].source = 1
  /\ last_op = [op |-> "map_memory", buffer |-> 1, ok |-> TRUE,
                view |-> << 1, 9 >>]
  /\ buffers[1].data = << 9, 9 >> /\ buffers[2].data = << 1, 9 >>

\* C17: copy_to_device_local of a HostVisible buffer with usage U and
\* contents V adds one buffer, which is DeviceLocal and has the size of V,
\* usage U and contents V, and changes no existing buffer: the source is
\* still there, HostVisible, with usage U, and a map of it sees V.  A copy
\* that fails adds and changes nothing.
C17_CopyLeavesSource ==
  [][/\ (last_op'.op = "copy_to_device_local" /\
           buffers[last_op'.buffer].property = "HostVisible" =>
           LET src == last_op'.buffer
               new == Len(buffers) + 1
           IN  IF last_op'.ok
                 THEN /\ DOMAIN buffers' = 1 .. new
                      /\ buffers'[new].property = "DeviceLocal"
                      /\ Len(buffers'[new].data) = Len(buffers[src].data)
                      /\ buffers'[new].usage = buffers[src].usage
                      /\ buffers'[new].data = buffers[src].data
                      /\ \A i \in DOMAIN buffers : buffers'[i] = buffers[i]
                      /\ buffers'[src].property = "HostVisible"
                 ELSE buffers' = buffers)
     /\ (last_op'.op = "map_memory" /\ last_op'.ok =>
           last_op'.view = buffers[last_op'.buffer].data)
    ]_vars

\* the scenario of the interface: [1, 1] with one usage flag is copied, the
\* source is then mapped and seen to hold what it held
C17_Witness ==
  /\ Len(buffers) = 2
  /\ buffers[1] = [property |-> "HostVisible", usage |-> {"Vertex"},
                   data |-> << 1, 1 >>, source |-> 0]
  /\ buffers[2] = [property |-> "DeviceLocal", usage |-> {"Vertex"},
                   data |-> << 1, 1 >>, source |-> 1]
  /\ last_op.op = "map_memory" /\ last_op.buffer = 1 /\ last_op.ok
  /\ last_op.view = << 1, 1 >>

\* C18: a Render's render pass and framebuffer are made once, by
\* create_render -- the render pass first, then the framebuffer from a
\* create-info that names that render pass -- and from then on no step of
\* any draw_indexed call changes the two handles, makes another render pass
\* or framebuffer, or destroys one; every recorded begin-render-pass names
\* exactly these two.
C18_RenderTargetsAreKept ==
  /\ [](dpc \notin {"none", "no_render"} =>
          /\ renderpass # 0 /\ framebuffer # 0
          /\ renderpass < framebuffer
          /\ framebuffer_info.render_pass = renderpass
          /\ framebuffer_info.width = surface_resolution.width
          /\ framebuffer_info.height = surface_resolution.height
          /\ Live("render_pass") = { << "render_pass", renderpass >> }
          /\ Live("framebuffer") = { << "framebuffer", framebuffer >> })
  /\ [](command_buffer # << >> =>
          /\ command_buffer[1].cmd = "begin_render_pass"
          /\ command_buffer[1].args[1] = renderpass
          /\ command_buffer[1].args[2] = framebuffer)
  /\ [][dpc # "none" =>
          /\ renderpass' = renderpass
          /\ framebuffer' = framebuffer
          /\ framebuffer_info' = framebuffer_info
          /\ { o \in live' : o[1] \in {"render_pass", "framebuffer"} } =
               { o \in live : o[1] \in {"render_pass", "framebuffer"} }]_vars

\* the second draw on the Render has returned; the first one had failed
\* and left its pipeline layout behind
C18_Witness ==
  /\ dpc = "returned" /\ draws = 2
  /\ renderpass = 1 /\ framebuffer = 2
  /\ command_buffer[1].args[1] = 1 /\ command_buffer[1].args[2] = 2
  /\ live = { << "render_pass", 1 >>, << "framebuffer", 2 >>,
              << "pipeline_layout", 3 >> }

\* the descriptor sets handed out and not yet returned by a reset
Outstanding == { k \in DOMAIN pools : pools[k].sets > 0 }

\* C19: a session's pools are reset before its lock is released.  So when
\* the lock is free, and when a session has just taken it and has not
\* allocated yet, no pool has a descriptor set outstanding; and the step
\* that frees the lock is taken from a state where every pool is reset
\* already and the session's reset has run.
C19_ResetBeforeUnlock ==
  /\ [](~locked => Outstanding = {})
  /\ [](\A t \in Threads :
          pc[t] = "held" /\ current_allocations[t] = 0 => Outstanding = {})
  /\ [][locked /\ ~locked' =>
          /\ Outstanding = {}
          /\ \E t \in Threads :
               pc[t] = "drop" /\ pc'[t] = "idle" /\ resets[t] = 1]_vars

\* a second session has taken the lock, with two pools left by the first,
\* and has not allocated yet
C19_Witness ==
  \E t \in Threads :
    /\ pc[t] = "held" /\ current_allocations[t] = 0
    /\ sessionNo = 2 /\ Len(pools) = 2
    /\ Outstanding = {}

\* the pools' outstanding descriptor sets, added up
RECURSIVE SumSets(_)
SumSets(ps) == IF ps = << >> THEN 0 ELSE ps[1].sets + SumSets(Tail(ps))

\* C20: a session's counter is 0 when Pool::allocate returns the session,
\* whatever earlier sessions did; while the session lasts the counter never
\* goes down and goes up only by 1, in the step of an allocate that hands
\* out a descriptor set; every other step of the session -- an allocate
\* that fails, a nested Pool::allocate, a panic, the drop's reset -- leaves
\* it as it is.
C20_CounterCountsAllocations ==
  [][\A t \in Threads :
       /\ (pc[t] = "lock" /\ pc'[t] = "held" =>
             current_allocations'[t] = 0)
       /\ (pc[t] \in {"held", "unwind"} =>
             /\ current_allocations'[t] \in
                  { current_allocations[t], current_allocations[t] + 1 }
             /\ (current_allocations'[t] = current_allocations[t] + 1 <=>
                   /\ pc[t] = "held" /\ pc'[t] = "held"
                   /\ SumSets(pools') = SumSets(pools) + 1
                   /\ lastPool'[t] = current_allocations[t] \div block_size))
    ]_vars

\* a later session, started with pools left by an earlier one, has counted
\* its first allocation
C20_Witness ==
  \E t \in Threads :
    /\ pc[t] = "held" /\ sessionNo >= 2
    /\ poolsAtStart[t] = 2
    /\ current_allocations[t] = 1
    /\ SumSets(pools) = 1

\* C21: no pool ever has more than block_size descriptor sets outstanding,
\* and not because the backend had to refuse one: every pool was made for
\* block_size sets, no allocate call ever found its pool exhausted, and
\* while a session with N allocations lasts pool k (counted from 0) holds
\* exactly min(block_size, max(0, N - k * block_size)) sets -- in every
\* session, whichever thread runs it and whatever the sessions before it
\* left behind.
C21_PoolNeverOverfilled ==
  /\ \A k \in DOMAIN pools :
       /\ pools[k].alloc_size = block_size
       /\ pools[k].sets <= block_size
  /\ \A t \in Threads :
       /\ alloc_error[t] # "exhausted"
       /\ (InSession(t) =>
             \A k \in DOMAIN pools :
               pools[k].sets =
                 Min(block_size,
                     Max(0, current_allocations[t] - (k - 1) * block_size)))

\* a later session, run by another thread than the first, has filled both
\* pools to the brim
C21_Witness ==
  \E t \in Threads :
    /\ InSession(t) /\ sessionNo >= 2 /\ t # 1
    /\ current_allocations[t] = 2 * block_size
    /\ Len(pools) = 2
    /\ pools[1].sets = block_size /\ pools[2].sets = block_size

\* C22: the pool list only grows.  No step makes it shorter or replaces a
\* pool that is in it, a reset and a session's end leave its length alone,
\* and in every state the number of pools is ceil(M / block_size) for the
\* largest allocation count M any session on the Pool has reached
\* (peakBlocks is the largest ceil(N / block_size), which is the same
\* number as ceil is monotone).
C22_PoolListOnlyGrows ==
  /\ [](Len(pools) = peakBlocks)
  /\ [][/\ Len(pools') >= Len(pools)
        /\ \A k \in DOMAIN pools :
             pools'[k].alloc_size = pools[k].alloc_size
        /\ ((\E t \in Threads : pc'[t] \in {"drop", "idle"} /\ pc'[t] # pc[t]) =>
              Len(pools') = Len(pools))]_vars

\* after a session of 51 allocations and its end, a session of 3: the two
\* pools of the first are still there
C22_Witness ==
  \E t \in Threads :
    /\ sessionNo >= 2 /\ pc[t] = "held"
    /\ current_allocations[t] = 3
    /\ peakBlocks = 2 /\ Len(pools) = 2

\* C23: the pool lookup of Allocator::allocate is in bounds.  While a
\* session lives, pools.len() * block_size >= current_allocations, so at the
\* entry of an allocate call current_allocations / block_size <= pools.len()
\* and one more pool is always enough; no allocate call ever indexed past
\* the end of the list; and the pool that served the last allocation was an
\* element of the list.
C23_LookupInBounds ==
  \A t \in Threads :
    /\ alloc_error[t] # "bounds"
    /\ (sess[t] = "live" =>
          /\ Len(pools) * block_size >= current_allocations[t]
          /\ current_allocations[t] \div block_size <= Len(pools)
          /\ lastPool[t] < Len(pools)
          /\ (current_allocations[t] > 0 =>
                lastPool[t] = (current_allocations[t] - 1) \div block_size))

\* every pool is full and the next allocate needs exactly one more
C23_Witness ==
  \E t \in Threads :
    /\ pc[t] = "held" /\ sess[t] = "live"
    /\ current_allocations[t] = 2 * block_size
    /\ Len(pools) = 2 /\ lastPool[t] = 1
    /\ current_allocations[t] \div block_size = Len(pools)

\* the descriptor set behind the thread's Descriptor is still allocated:
\* its session lives, has not run its reset, and the pool that served it
\* has sets outstanding
SetIsValid(t) ==
  /\ sess[t] = "live" /\ resets[t] = 0
  /\ lastPool[t] >= 0 /\ lastPool[t] < Len(pools)
  /\ pools[lastPool[t] + 1].sets > 0

\* C24: a Descriptor is only ever in scope while the session that allocated
\* it lives and has not reset its pools, so every update writes to a set
\* that is still allocated; and as long as the Descriptor stays in scope
\* its session makes no further allocation, does not run its drop and does
\* not end, and the pool behind the set is not reset.
C24_DescriptorWithinSession ==
  /\ [](\A t \in Threads :
          descriptor[t] # "none" =>
            SetIsValid(t) /\ pc[t] \in {"held", "unwind", "lock"})
  /\ [][\A t \in Threads :
          /\ (descriptor[t] # "written" /\ descriptor'[t] = "written" =>
                SetIsValid(t) /\ pc[t] = "held" /\ locked)
          /\ (descriptor[t] # "none" /\ descriptor'[t] # "none" =>
                /\ current_allocations'[t] = current_allocations[t]
                /\ pools' = pools
                /\ resets'[t] = 0
                /\ sess'[t] = "live"
                /\ pc'[t] \notin {"drop", "idle"})]_vars

\* the 51st descriptor of a later session has been written and is still
\* in scope
C24_Witness ==
  \E t \in Threads :
    /\ descriptor[t] = "written" /\ pc[t] = "held"
    /\ sessionNo >= 2
    /\ current_allocations[t] = block_size + 1
    /\ lastPool[t] = 1 /\ pools[2].sets = 1
====
